---- MODULE Spec2Model ----
(***************************************************************************)
(* Model of detector_AI_APP.py: the Tk application whose "Start           *)
(* Processing" button starts a thread running process_pdf, which renders   *)
(* the pages of a PDF, asks the analyzer for (participant_id, elements) of *)
(* each page, aggregates the elements by resolved participant id and       *)
(* writes one Excel workbook.                                              *)
(***************************************************************************)
EXTENDS Integers, Sequences, FiniteSets, TLC

\* Bounds of the model.
MaxPages == 3      \* most pages a rendered document has
MaxElems == 1      \* most elements the analyzer returns for one page
MaxClicks == 2     \* most presses of the Start button in the application runs

VARIABLES
    threads,        \* one record of locals per started process_pdf thread
    clicks,         \* presses of the Start Processing button so far
    status_label,   \* the status label of the window
    progress_var,   \* the progress bar's variable, as the pair <<page_num, total_pages>>
    messagebox,     \* the last dialog shown to the operator
    console,        \* what was printed on stdout / stderr
    excel_file      \* the workbook at excel_path

vars == <<threads, clicks, status_label, progress_var, messagebox, console, excel_file>>

----------------------------------------------------------------------------
\* Values.

None == "None"            \* Python's None (no modelled string id is spelled like it)
JsonNull == "null"        \* JSON null
Unknown == "Unknown"
Absent == "<absent>"      \* a key the analyzer's element dict does not have
RealIds == {"A001", "A002"}

\* What "participant_id" can be in the analyzer's JSON.
JsonIds == RealIds \cup {Unknown, JsonNull}

\* json.loads on the participant_id value: a JSON string stays a str, null becomes None.
json_loads_id(v) == IF v = JsonNull THEN None ELSE v

\* f"Unknown_{id_counter}"
PlaceholderNames ==
    <<"Unknown_1", "Unknown_2", "Unknown_3", "Unknown_4", "Unknown_5",
      "Unknown_6", "Unknown_7", "Unknown_8", "Unknown_9">>
Placeholder(n) == PlaceholderNames[n]

\* The i-th element the analyzer extracts from page p; question_number i stands
\* for the string it is in the JSON.
Element(p, i) ==
    [json |-> "object", element_type |-> "Question", page_number |-> p,
     question_number |-> i, question_text |-> "text", options |-> "N/A",
     selected_answer |-> "answer", notes |-> "", participant_id |-> Absent]

Elems(p, n) == [i \in 1..n |-> Element(p, i)]

\* An "elements" value that is no list of objects: a list holding a JSON
\* string (json = "string"; the other fields of the record are not read).
BadElems(p) == <<[Element(p, 1) EXCEPT !.json = "string"]>>

\* What one analyzer call for page p can come back with.
Responses(p) ==
    {[kind |-> k, participant_id |-> JsonNull, elements |-> <<>>] :
        k \in {"http_error", "not_json", "missing_key"}}
    \cup
    {[kind |-> "json", participant_id |-> id, elements |-> es] :
        id \in JsonIds, es \in {Elems(p, n) : n \in 0..MaxElems} \cup {BadElems(p)}}

\* The responses of the application runs: a well-formed page or a failed call.
AppResponses(p) ==
    {[kind |-> "http_error", participant_id |-> JsonNull, elements |-> <<>>],
     [kind |-> "json", participant_id |-> "A001", elements |-> Elems(p, MaxElems)]}

----------------------------------------------------------------------------
\* analyze_page_with_api: the call raises, or returns (page_id, elements).
analyze_page_with_api(r) ==
    IF r.kind = "http_error"
    THEN [raised |-> TRUE, page_id |-> Unknown, elements |-> <<>>, printed |-> FALSE]
    ELSE IF r.kind \in {"not_json", "missing_key"}
    THEN [raised |-> FALSE, page_id |-> Unknown, elements |-> <<>>, printed |-> TRUE]
    ELSE [raised |-> FALSE, page_id |-> json_loads_id(r.participant_id),
          elements |-> r.elements, printed |-> FALSE]

\* data_by_id is a Python dict: a sequence of [pid, elements] in insertion order.
HasKey(d, k) == \E i \in 1..Len(d) : d[i].pid = k
Get(d, k) == d[CHOOSE i \in 1..Len(d) : d[i].pid = k].elements

\* if current_id not in data_by_id: data_by_id[current_id] = []
SetDefault(d, k) == IF HasKey(d, k) THEN d ELSE Append(d, [pid |-> k, elements |-> <<>>])

\* As Extend, but assigning the list instead of extending it.
ExtendReplacing(d, k, es) ==
    [i \in 1..Len(d) |-> IF d[i].pid = k THEN [d[i] EXCEPT !.elements = es] ELSE d[i]]

\* data_by_id[current_id].extend(elements)
Extend(d, k, es) ==
    [i \in 1..Len(d) |-> IF d[i].pid = k THEN [d[i] EXCEPT !.elements = @ \o es] ELSE d[i]]

\* As ResolveId, but keeping the first id once one is set.
ResolveIdSticky(current_id, page_id) ==
    IF page_id # Unknown
    THEN IF current_id = None THEN page_id ELSE current_id
    ELSE current_id

\* if page_id != "Unknown": if current_id is None or page_id != current_id: current_id = page_id
ResolveId(current_id, page_id) ==
    IF page_id # Unknown
    THEN IF current_id = None \/ page_id # current_id THEN page_id ELSE current_id
    ELSE current_id

\* As Stamp, but leaving the elements as the analyzer returned them.
StampNothing(elements, current_id) == elements

\* for elem in elements: elem["participant_id"] = current_id
Stamp(elements, current_id) ==
    [i \in 1..Len(elements) |-> [elements[i] EXCEPT !.participant_id = current_id]]

\* The assignment of line 130 raises TypeError on an element that is no dict.
AllDicts(elements) == \A i \in 1..Len(elements) : elements[i].json = "object"

----------------------------------------------------------------------------
\* The state after main_app built the window: no thread, label "Ready".

NoFile == [state |-> "absent", sheets |-> <<>>]
CorruptFile == [state |-> "corrupt", sheets |-> <<>>]

Label(text, page, total) == [text |-> text, page |-> page, total |-> total]

Init ==
    /\ threads = <<>>
    /\ clicks = 0
    /\ status_label = Label("Ready", 0, 0)
    /\ progress_var = <<0, 1>>
    /\ messagebox = ""
    /\ console = {}
    /\ excel_file = NoFile

NewThread(flag) ==
    [pc |-> "start", combine_flag |-> flag, total_pages |-> 0, page_num |-> 0,
     data_by_id |-> <<>>, current_id |-> None, id_counter |-> 1,
     responses |-> <<>>, resolved |-> <<>>,
     header |-> <<>>, all_columns |-> <<>>, sheets |-> <<>>, exc |-> ""]

Line(text, page) == [text |-> text, page |-> page]

\* start_process: the handler of the Start Processing button. The operator
\* presses it at most cap times; the handler itself has no guard.
start_process(cap) ==
    /\ clicks < cap
    /\ clicks' = clicks + 1
    /\ \E fields \in {"ok", "bad_numbers", "missing_required", "missing_azure"},
          flag \in BOOLEAN :
        IF fields = "ok"
        THEN /\ threads' = Append(threads, NewThread(flag))
             /\ UNCHANGED messagebox
        ELSE /\ messagebox' = fields
             /\ UNCHANGED threads
    /\ UNCHANGED <<status_label, progress_var, console, excel_file>>

----------------------------------------------------------------------------
\* process_pdf, one record of locals per thread.

SetThread(t, th) == [threads EXCEPT ![t] = th]

\* Lines 102-108: render the pages, reset the progress bar, start with an
\* empty map, no current id and id_counter 1.
begin(t) ==
    /\ threads[t].pc = "start"
    /\ \E n \in 1..MaxPages :
        threads' = SetThread(t, [threads[t] EXCEPT !.pc = "request", !.total_pages = n])
    /\ progress_var' = <<0, 1>>
    /\ UNCHANGED <<clicks, status_label, messagebox, console, excel_file>>

\* Lines 110-115, 22-87: the loop takes the next page, shows it in the status
\* label and sends the analyzer request, which is then in flight.
request(t) ==
    /\ threads[t].pc = "request"
    /\ LET n == threads[t].page_num + 1 IN
        /\ threads' = SetThread(t, [threads[t] EXCEPT !.pc = "await", !.page_num = n])
        /\ status_label' = Label("Processing page", n, threads[t].total_pages)
    /\ UNCHANGED <<clicks, progress_var, messagebox, console, excel_file>>

\* The locals after lines 117-131 for the analyzer result res.
Aggregate(th, res) ==
    LET cid1 == ResolveId(th.current_id, res.page_id)
        fresh == cid1 = None
        cid == IF fresh THEN Placeholder(th.id_counter) ELSE cid1
        d1 == SetDefault(th.data_by_id, cid)
        ok == AllDicts(res.elements)
    IN [th EXCEPT
          !.current_id = cid,
          !.id_counter = IF fresh THEN @ + 1 ELSE @,
          !.resolved = Append(@, cid),
          !.data_by_id = IF ok THEN Extend(d1, cid, Stamp(res.elements, cid)) ELSE d1,
          !.exc = IF ok THEN "" ELSE "TypeError",
          !.pc = IF ~ok THEN "dead"
                 ELSE IF th.page_num < th.total_pages THEN "request" ELSE "export"]

\* Lines 87-134: the response r of the call in flight arrives, one of R[page]. An exception of
\* the call or of the aggregation ends the thread (threading prints the
\* traceback on stderr); otherwise the page is aggregated and the progress set.
respond(t, R) ==
    /\ threads[t].pc = "await"
    /\ \E r \in R[threads[t].page_num] :
        LET th == [threads[t] EXCEPT !.responses = Append(@, r)]
            res == analyze_page_with_api(r)
            nxt == IF res.raised
                   THEN [th EXCEPT !.pc = "dead", !.exc = "HTTPError"]
                   ELSE Aggregate(th, res)
        IN /\ threads' = SetThread(t, nxt)
           /\ console' = console
                \cup (IF res.printed THEN {Line("JSON parse failed", th.page_num)} ELSE {})
                \cup (IF nxt.pc = "dead" THEN {Line(nxt.exc, th.page_num)} ELSE {})
           /\ progress_var' = IF nxt.pc = "dead" THEN progress_var
                              ELSE <<th.page_num, th.total_pages>>
    /\ UNCHANGED <<clicks, status_label, messagebox, excel_file>>

----------------------------------------------------------------------------
\* The export, lines 137-170.

\* The keys of an element dict in order: those of the JSON, then the
\* participant_id line 130 adds.
Attrs ==
    <<"element_type", "page_number", "question_number", "question_text",
      "options", "selected_answer", "notes", "participant_id">>

\* keys of line 145.
keys ==
    <<"element_type", "page_number", "question_number", "question_text",
      "selected_answer", "notes">>

\* df.drop(columns=['options', 'participant_id'])
DropColumns == SelectSeq(Attrs, LAMBDA a : a \notin {"options", "participant_id"})

\* df[ks].values.T.tolist(): one list per key, holding that key's value of each element.
Rows(elements, ks) ==
    [j \in 1..Len(ks) |-> [i \in 1..Len(elements) |-> elements[i][ks[j]]]]

\* [pid] * num_elements
Repeat(pid, n) == [i \in 1..n |-> pid]

\* As Exported, but without the test on the element list.
ExportedAll(d) == d

\* for pid, elements in data_by_id.items(): if elements: ... (lines 146-147, 161-162)
Exported(d) == SelectSeq(d, LAMBDA g : g.elements # <<>>)

\* Lines 143-152: header and all_columns after the loop over the groups.
CombinedLists(d) ==
    LET gs == Exported(d)
        F[i \in 0..Len(gs)] ==
            IF i = 0 THEN [header |-> <<>>, all_columns |-> <<>>]
            ELSE [header |-> F[i - 1].header \o Repeat(gs[i].pid, Len(gs[i].elements)),
                  all_columns |-> F[i - 1].all_columns \o Rows(gs[i].elements, keys)]
    IN F[Len(gs)]

\* pd.DataFrame(data, index=index, columns=range(ncols)) takes each list of data
\* as one row, padded to the longest; it raises ValueError unless the rows are
\* as many as index and as wide as ncols.
DataFrameShapeOk(data, index, ncols) ==
    /\ Len(data) = Len(index)
    /\ \A i \in 1..Len(data) : Len(data[i]) <= ncols
    /\ \E i \in 1..Len(data) : Len(data[i]) = ncols

\* pid[:31]: every id of the model is shorter than 31 characters.
SheetName(pid) == pid

Sheet(name, index, rows) == [name |-> name, index |-> index, rows |-> rows]

\* Lines 141-158: the locals and the sheets written in combined mode.
CombinedBook(d) ==
    LET l == CombinedLists(d)
        built == l.all_columns # <<>>
        ok == DataFrameShapeOk(l.all_columns, keys, Len(l.header))
    IN [header |-> l.header, all_columns |-> l.all_columns,
        sheets |-> IF built /\ ok
                   THEN <<Sheet("Combined", <<"participant_id">> \o keys,
                                <<l.header>> \o l.all_columns)>>
                   ELSE <<>>,
        exc |-> IF built /\ ~ok THEN "ValueError" ELSE ""]

\* Lines 161-167: one transposed sheet per group in per-participant mode.
PerParticipantBook(d) ==
    LET gs == Exported(d) IN
    [header |-> <<>>, all_columns |-> <<>>,
     sheets |-> [i \in 1..Len(gs) |->
                    Sheet(SheetName(gs[i].pid), DropColumns, Rows(gs[i].elements, DropColumns))],
     exc |-> ""]

\* Leaving the with block of line 140 saves the workbook. A workbook without
\* a sheet is saved or refused by the spreadsheet library (IndexError).
CloseOutcomes(book) ==
    IF book.exc # "" THEN {book.exc}
    ELSE IF book.sheets = <<>> THEN {"", "IndexError"}
    ELSE {""}

\* Lines 137-170: write the workbook, then report success. An exception ends
\* the thread before the report, leaving the file absent, as it was, or broken.
export(t) ==
    /\ threads[t].pc = "export"
    /\ LET th == threads[t]
           book == IF th.combine_flag THEN CombinedBook(th.data_by_id)
                   ELSE PerParticipantBook(th.data_by_id)
           done == [th EXCEPT !.header = book.header, !.all_columns = book.all_columns,
                              !.sheets = book.sheets]
       IN \E outcome \in CloseOutcomes(book) :
            IF outcome = ""
            THEN /\ threads' = SetThread(t, [done EXCEPT !.pc = "done"])
                 /\ excel_file' = [state |-> "saved", sheets |-> book.sheets]
                 /\ status_label' = Label("Finished!", 0, 0)
                 /\ messagebox' = "Success"
                 /\ console' = console \cup
                        {Line("Added sheet", i) : i \in 1..Len(book.sheets)}
            ELSE /\ threads' = SetThread(t, [done EXCEPT !.pc = "dead", !.exc = outcome])
                 /\ excel_file' \in {excel_file, CorruptFile}
                 /\ console' = console \cup {Line(outcome, 0)}
                 /\ UNCHANGED <<status_label, messagebox>>
    /\ UNCHANGED <<clicks, progress_var>>

----------------------------------------------------------------------------
\* One run: the operator presses Start Processing once.
Next ==
    \/ start_process(1)
    \/ \E t \in 1..Len(threads) : begin(t)
    \/ \E t \in 1..Len(threads) : request(t)
    \/ \E t \in 1..Len(threads) : respond(t, [p \in 1..MaxPages |-> Responses(p)])
    \/ \E t \in 1..Len(threads) : export(t)

Spec == Init /\ [][Next]_vars

\* The application: the operator presses Start Processing up to MaxClicks times.
NextApp ==
    \/ start_process(MaxClicks)
    \/ \E t \in 1..Len(threads) : begin(t)
    \/ \E t \in 1..Len(threads) : request(t)
    \/ \E t \in 1..Len(threads) : respond(t, [p \in 1..MaxPages |-> AppResponses(p)])
    \/ \E t \in 1..Len(threads) : export(t)

SpecApp == Init /\ [][NextApp]_vars

----------------------------------------------------------------------------
\* Properties.

Threads == 1..Len(threads)
Result(r) == analyze_page_with_api(r)
Placeholders == {PlaceholderNames[i] : i \in 1..Len(PlaceholderNames)}
LoopAborted(th) == th.exc \in {"HTTPError", "TypeError"}
ExportRan(th) == th.pc = "done" \/ th.exc \in {"ValueError", "IndexError"}

\* What identifies an element: its page and its place on the page.
Ident(es) == [i \in 1..Len(es) |-> <<es[i].page_number, es[i].question_number>>]

\* The elements, in page order, of the first n pages that were resolved to id k.
PagesOf(th, k, n) ==
    LET F[i \in 0..n] ==
            IF i = 0 THEN <<>>
            ELSE IF th.resolved[i] = k
                 THEN F[i - 1] \o Ident(Result(th.responses[i]).elements)
                 ELSE F[i - 1]
    IN F[n]

\* The detected ids of the pages a thread has aggregated.
Detected(th) == [i \in 1..Len(th.resolved) |-> Result(th.responses[i]).page_id]

\* C1: in every state of process_pdf, every element stored in data_by_id[k]
\* has participant_id = k.
C1_StampedWithGroupKey ==
    \A t \in Threads :
        LET d == threads[t].data_by_id IN
        \A g \in 1..Len(d) : \A e \in 1..Len(d[g].elements) :
            d[g].elements[e].participant_id = d[g].pid

\* A finished run in which the elements of a page detected "Unknown" were
\* stored under the real id carried forward from an earlier page.
C1_Witness ==
    \E t \in Threads :
        LET th == threads[t] IN
        /\ th.pc = "done"
        /\ \E i \in 2..Len(th.resolved) :
            /\ Detected(th)[i] = Unknown
            /\ Result(th.responses[i]).elements # <<>>
            /\ th.resolved[i] \in RealIds
            /\ Len(Get(th.data_by_id, th.resolved[i])) >= 2

\* C2: the map holds exactly one group per distinct resolved id, and each
\* group's list is the concatenation, in page order, of the elements of the
\* pages resolved to its id; pages sharing one real id give one group, and
\* the ids a, b, a give two groups, a with pages 1 and 3 and b with page 2.
C2_GroupedById ==
    \A t \in Threads :
        LET th == threads[t]
            d == th.data_by_id
            n == Len(th.resolved)
            ids == Detected(th)
            el(i) == Ident(Result(th.responses[i]).elements)
        IN ~LoopAborted(th) =>
            /\ \A i, j \in 1..Len(d) : d[i].pid = d[j].pid => i = j
            /\ {d[i].pid : i \in 1..Len(d)} = {th.resolved[i] : i \in 1..n}
            /\ \A g \in 1..Len(d) : Ident(d[g].elements) = PagesOf(th, d[g].pid, n)
            /\ (n >= 1 /\ \E a \in RealIds : \A i \in 1..n : ids[i] = a) => Len(d) = 1
            /\ \A a, b \in RealIds :
                (a # b /\ n = 3 /\ ids = <<a, b, a>>) =>
                    /\ Len(d) = 2
                    /\ Ident(Get(d, a)) = el(1) \o el(3)
                    /\ Ident(Get(d, b)) = el(2)

\* A finished run over pages detected a, b, a, each with an element.
C2_Witness ==
    \E t \in Threads :
        LET th == threads[t] IN
        /\ th.pc = "done"
        /\ \E a, b \in RealIds : a # b /\ Detected(th) = <<a, b, a>>
        /\ \A i \in 1..3 : Result(th.responses[i]).elements # <<>>
        /\ Len(th.data_by_id) = 2

\* C3: a page detected "Unknown" keeps the current id once one is set, and a
\* placeholder group is started only when no current id was ever set, that
\* is on the first page.
C3_PlaceholderOnlyWhenUnset ==
    \A t \in Threads :
        LET th == threads[t] IN
        \A i \in 1..Len(th.resolved) :
            /\ (i > 1 /\ Detected(th)[i] = Unknown) => th.resolved[i] = th.resolved[i - 1]
            /\ (th.resolved[i] \in Placeholders /\ i > 1) => th.resolved[i] = th.resolved[i - 1]

\* A response that does not conform to {participant_id, elements: list of objects}.
Malformed(r) ==
    \/ r.kind \in {"not_json", "missing_key"}
    \/ r.kind = "json" /\ ~AllDicts(r.elements)

\* C4: every malformed response yields ("Unknown", []) for its page and never
\* ends the run.
C4_MalformedIsDegraded ==
    \A t \in Threads :
        LET th == threads[t] IN
        \A i \in 1..Len(th.responses) :
            Malformed(th.responses[i]) =>
                /\ ~Result(th.responses[i]).raised
                /\ Result(th.responses[i]).page_id = Unknown
                /\ Result(th.responses[i]).elements = <<>>
                /\ ~(th.pc = "dead" /\ i = Len(th.responses))

\* C5: a transport failure on page k ends the run with no later page
\* analyzed, no workbook written, and the failure shown to the operator in
\* the window (a dialog or the status label).
C5_TransportFailureSurfaced ==
    \A t \in Threads :
        LET th == threads[t] IN
        th.exc = "HTTPError" =>
            /\ th.pc = "dead"
            /\ Len(th.responses) = th.page_num
            /\ th.sheets = <<>>
            /\ excel_file = NoFile
            /\ \/ messagebox \notin {"", "Success"}
               \/ status_label.text \notin {"Ready", "Processing page", "Finished!"}

\* C6: at most one pipeline task runs and at most one analyzer call is in flight.
C6_SinglePipeline ==
    /\ Cardinality({t \in Threads : threads[t].pc \notin {"done", "dead"}}) <= 1
    /\ Cardinality({t \in Threads : threads[t].pc = "await"}) <= 1

\* The elements of the non-empty groups in insertion order of the map.
FlatElems(d) ==
    LET F[i \in 0..Len(d)] == IF i = 0 THEN <<>> ELSE F[i - 1] \o d[i].elements
    IN F[Len(d)]

\* C7: after a combined-mode export of a map with a non-empty group, the
\* Combined sheet exists, its participant_id row is each non-empty group's
\* key repeated once per element in insertion order, and column i holds the
\* attributes of the i-th element. Stated for the maps whose keys are all
\* real participant ids.
C7_CombinedSheet ==
    \A t \in Threads :
        LET th == threads[t]
            d == th.data_by_id
            es == FlatElems(d)
        IN (/\ th.combine_flag /\ ExportRan(th) /\ es # <<>>
            /\ \A g \in 1..Len(d) : d[g].pid \in RealIds) =>
            /\ Len(th.sheets) = 1
            /\ LET rows == th.sheets[1].rows IN
                /\ Len(rows) = Len(keys) + 1
                /\ rows[1] = [i \in 1..Len(es) |-> es[i].participant_id]
                /\ \A j \in 1..Len(keys) :
                    rows[j + 1] = [i \in 1..Len(es) |-> es[i][keys[j]]]

\* The number of groups with at least one element.
NonEmptyCount(d) == Cardinality({g \in 1..Len(d) : d[g].elements # <<>>})

\* C8: per-participant mode creates a sheet for a group exactly if its list
\* is non-empty; combined mode adds no participant_id entry and no row block
\* for a group whose list is empty.
C8_EmptyGroupsSkipped ==
    \A t \in Threads :
        LET th == threads[t]
            d == th.data_by_id
        IN ExportRan(th) =>
            IF th.combine_flag
            THEN /\ \A g \in 1..Len(d) : d[g].elements = <<>> =>
                        \A i \in 1..Len(th.header) : th.header[i] # d[g].pid
                 /\ Len(th.header) = Len(FlatElems(d))
                 /\ Len(th.all_columns) = Len(keys) * NonEmptyCount(d)
            ELSE /\ \A g \in 1..Len(d) :
                        d[g].elements # <<>> <=>
                            \E s \in 1..Len(th.sheets) : th.sheets[s].name = SheetName(d[g].pid)
                 /\ Len(th.sheets) = NonEmptyCount(d)

\* A finished per-participant export of a map with an empty and a non-empty group.
C8_Witness ==
    \E t \in Threads :
        LET th == threads[t]
            d == th.data_by_id
        IN /\ th.pc = "done"
           /\ ~th.combine_flag
           /\ \E g, h \in 1..Len(d) : d[g].elements = <<>> /\ d[h].elements # <<>>
           /\ Len(th.sheets) = 1

\* C9: aggregating a page with zero elements leaves every group's list as it
\* was (a group it creates is empty), and makes a detected real id that
\* differs from current_id the current id.
C9_EmptyPageFrame ==
    [][\A t \in Threads :
        (threads[t].pc = "await" /\ threads'[t].pc \in {"request", "export"}) =>
            LET old == threads[t]
                new == threads'[t]
                res == Result(new.responses[Len(new.responses)])
            IN res.elements = <<>> =>
                /\ \A g \in 1..Len(old.data_by_id) : new.data_by_id[g] = old.data_by_id[g]
                /\ \A g \in (Len(old.data_by_id) + 1)..Len(new.data_by_id) :
                        new.data_by_id[g].elements = <<>>
                /\ (res.page_id \in RealIds /\ res.page_id # old.current_id) =>
                        new.current_id = res.page_id]_vars

\* A run whose last aggregated page had no element and a real id other than
\* the current one, which held elements: the id switched, the lists stayed.
C9_Witness ==
    \E t \in Threads :
        LET th == threads[t]
            n == Len(th.resolved)
        IN /\ ~LoopAborted(th)
           /\ n >= 2
           /\ Result(th.responses[n]).elements = <<>>
           /\ Detected(th)[n] \in RealIds
           /\ th.resolved[n - 1] # Detected(th)[n]
           /\ th.current_id = Detected(th)[n]
           /\ Get(th.data_by_id, th.resolved[n - 1]) # <<>>
           /\ Get(th.data_by_id, th.current_id) = <<>>

\* C10: id_counter is always 1 or 2, and the only placeholder key of
\* data_by_id is "Unknown_1", created on page 1.
C10_PlaceholderOnce ==
    \A t \in Threads :
        LET th == threads[t]
            d == th.data_by_id
        IN /\ th.id_counter \in {1, 2}
           /\ \A g \in 1..Len(d) : d[g].pid \in Placeholders => d[g].pid = Placeholder(1)
           /\ \A i \in 2..Len(th.resolved) :
                th.resolved[i] \in Placeholders => th.resolved[1] = th.resolved[i]

====
